---- MODULE Spec2Model ----
(***************************************************************************)
(* Checkpoint and frame-versioning service of Project Greenlight           *)
(* (greenlight/core/checkpoints.py), as a state machine over the project   *)
(* directory: the live artifact files, the live frame images, the          *)
(* checkpoint folders, the index file, the frame-version archive, the      *)
(* thumbnails and the pre-restore backups.                                 *)
(***************************************************************************)
EXTENDS Integers, Sequences, FiniteSets, TLC

\* ---------------------------------------------------------------- bounds
\* Seconds the wall clock may advance (timestamps have second granularity).
MaxClock == 1
\* Distinct file contents the pipelines may write.
MaxContent == 2
\* Service calls and pipeline writes in one run, together.
MaxSteps == 3
\* The same, in the longer runs of SpecDeep.
DeepSteps == 5

\* ------------------------------------------------------------- constants
CHECKPOINT_FILES ==
    << "world_bible/world_config.json",
       "outlines/outline_variants.json",
       "outlines/confirmed_outline.json",
       "storyboard/visual_script.json",
       "storyboard/prompts.json" >>

\* The file names restore_checkpoint looks for in a checkpoint folder.
RESTORE_FILES ==
    << "world_config.json", "outline_variants.json",
       "confirmed_outline.json", "visual_script.json", "prompts.json" >>

Range(s) == {s[i] : i \in DOMAIN s}

Paths == Range(CHECKPOINT_FILES)

\* Path(rel_path).name
Basename(p) ==
    CASE p = "world_bible/world_config.json" -> "world_config.json"
      [] p = "outlines/outline_variants.json" -> "outline_variants.json"
      [] p = "outlines/confirmed_outline.json" -> "confirmed_outline.json"
      [] p = "storyboard/visual_script.json" -> "visual_script.json"
      [] p = "storyboard/prompts.json" -> "prompts.json"

Basenames == {Basename(p) : p \in Paths}

\* The destination restore_checkpoint picks for a file name.
RestoreDst(filename) ==
    IF filename = "world_config.json"
    THEN "world_bible/world_config.json"
    ELSE IF filename \in {"outline_variants.json", "confirmed_outline.json"}
         THEN IF filename = "outline_variants.json"
              THEN "outlines/outline_variants.json"
              ELSE "outlines/confirmed_outline.json"
         ELSE IF filename = "visual_script.json"
              THEN "storyboard/visual_script.json"
              ELSE "storyboard/prompts.json"

\* The artifact files the pipelines write in this model; the other known
\* artifact files stay absent.
ProjectFiles == {"world_bible/world_config.json", "storyboard/prompts.json"}

\* Frame identifiers <scene>.<frame>.<camera>; the live image is <id>.png.
FrameIds == {"1.1.cA"}

\* int(frame_id.split(".")[0])
SceneOf(f) == 1

\* A file that does not exist; a file's content otherwise.
Absent == 0
Contents == 1 .. MaxContent
\* st_size of a file with content c.
SizeOf(c) == c
\* len(json.loads(prompts.json)) for a prompts manifest with content c.
PromptsLen(c) == c

\* The calendar day of every timestamp of a run, as strftime("%Y%m%d")
\* prints it: eight digits, which are also eight hexadecimal digits.
Today == "20261103"
\* The values str(uuid.uuid4())[:8] can take: eight hexadecimal digits.
Ids == {"20261103", "a3f9c2e1"}

\* Ids that differ from one another and from Today, for the runs in which
\* no two generated ids coincide: the k-th id generated is FreshPool[k].
FreshPool == << "a3f9c2e1", "7b0d4e55", "c41e9a06", "0f8e7d6c",
               "5a5b1c2d", "e0e1f2a3", "9d8c7b6a", "1b2c3d4e" >>
\* An id no checkpoint and no version ever gets.
UnknownId == "ffffffff"

\* A checkpoint folder cp_<timestamp>_<id> is named by <<second, id>>; the
\* day part of the timestamp is Today.
\* checkpoint_id in d.name: an id of eight hexadecimal digits occurs in
\* cp_YYYYMMDD_HHMMSS_<id> as the id or as the day of the timestamp.  The
\* other directories under checkpoints/ (frame_versions, thumbnails) hold
\* no eight hexadecimal digits in a row.
NameContains(d, id) == id = d[2] \/ id = Today

\* An archived frame version <frame_id>_v<iteration>_<timestamp>.png is
\* named by <<frame_id, iteration, second>>, and a backup
\* <stem>_prerestore_<timestamp>.png by <<stem, second>>.

\* A directory as a function from the names in it; a name is added or
\* overwritten, or removed.
Put(dir, name, x) == (name :> x) @@ dir
Drop(dir, name) == [n \in DOMAIN dir \ {name} |-> dir[n]]
\* The content under a name, Absent when the name is not there.
At(dir, name) == IF name \in DOMAIN dir THEN dir[name] ELSE Absent

VARIABLES
    clock,      \* datetime.now(), in seconds
    live,       \* the live artifact files: path -> content or Absent
    frames,     \* storyboard_output/generated/<id>.png: id -> content
    backups,    \* storyboard_output/generated/backups: name -> content
    dirs,       \* checkpoints/cp_*: name -> folder
    indexFile,  \* checkpoints/checkpoint_index.json
    versions,   \* checkpoints/frame_versions/<id>/*: name -> content
    thumbs,     \* checkpoints/thumbnails/<version_id>.jpg: the ids present
    result,     \* what the last service call returned
    procs,      \* the calls in progress, per request handler
    hist        \* history of the run (not program state)

fs == <<live, frames, backups, dirs, indexFile, versions, thumbs>>
vars == <<clock, live, frames, backups, dirs, indexFile, versions, thumbs,
          result, procs, hist>>

\* The request handlers that may run at once.
Procs == {1, 2}
Idle == [pc |-> "idle"]

\* ----------------------------------------------------------------- index
EmptyIndex == [checkpoints |-> << >>,
               frame_versions |-> [f \in FrameIds |-> << >>],
               last_updated |-> 0]

NoFile == [st |-> "absent", idx |-> EmptyIndex]
\* An index file cut short: opened for writing and not yet written out.
PartialFile == [st |-> "partial", idx |-> EmptyIndex]

\* A load that makes up a first version for a file it cannot read.
LoadIndexOf_seeded(file) ==
    IF file.st = "ok" THEN file.idx
    ELSE [EmptyIndex EXCEPT !.frame_versions =
             [f \in FrameIds |-> << [version_id |-> "", frame_id |-> f,
                                     iteration |-> 1, created_at |-> 0,
                                     image_path |-> <<f, 1, 0>>,
                                     thumbnail_path |-> "", healing_notes |-> "",
                                     continuity_score |-> 0, file_size_bytes |-> 0,
                                     prompt_snapshot |-> ""] >>]]

\* _load_index on an index file
LoadIndexOf(file) == IF file.st = "ok" THEN file.idx ELSE EmptyIndex

\* _save_index, as one step
SavedIndex(index, now) ==
    [st |-> "ok", idx |-> [index EXCEPT !.last_updated = now]]

\* ------------------------------------------------------ checkpoint folder
EmptyDir == [files |-> [b \in Basenames |-> Absent],
             hasFrames |-> FALSE,
             frames |-> [f \in FrameIds |-> Absent],
             manifest |-> [checkpoint_id |-> ""]]

RECURSIVE SumSizes(_, _)
SumSizes(fn, S) ==
    IF S = {} THEN 0
    ELSE LET x == CHOOSE y \in S : TRUE
         IN  (IF fn[x] = Absent THEN 0 ELSE SizeOf(fn[x])) + SumSizes(fn, S \ {x})

LiveFrameIds(fr) == {f \in FrameIds : fr[f] # Absent}

\* The Checkpoint record create_checkpoint builds.
CheckpointOf(id, name, ctype, include_images, lv, fr, now) ==
    [checkpoint_id |-> id,
     name |-> name,
     created_at |-> now,
     checkpoint_type |-> ctype,
     files_archived |-> SelectSeq(CHECKPOINT_FILES, LAMBDA p : lv[p] # Absent),
     frames_archived |-> IF include_images THEN Cardinality(LiveFrameIds(fr)) ELSE 0,
     total_frames |-> IF lv["storyboard/prompts.json"] # Absent
                      THEN PromptsLen(lv["storyboard/prompts.json"]) ELSE 0,
     total_scenes |-> IF include_images
                      THEN Cardinality({SceneOf(f) : f \in LiveFrameIds(fr)}) ELSE 0,
     file_size_bytes |-> SumSizes(lv, Paths)
                         + (IF include_images THEN SumSizes(fr, FrameIds) ELSE 0)]

\* The checkpoint folder after create_checkpoint has copied into it: mkdir
\* with exist_ok keeps what a folder of the same name already holds.
FolderAfterCreate(ds, d, cp, include_images, lv, fr) ==
    LET base == IF d \in DOMAIN ds THEN ds[d] ELSE EmptyDir
    IN  [files |-> [b \in Basenames |->
                      LET p == CHOOSE q \in Paths : Basename(q) = b
                      IN  IF lv[p] # Absent THEN lv[p] ELSE base.files[b]],
         hasFrames |-> base.hasFrames \/ include_images,
         frames |-> [f \in FrameIds |->
                      IF include_images /\ fr[f] # Absent
                      THEN fr[f] ELSE base.frames[f]],
         manifest |-> cp]

\* create_checkpoint on the store <<dirs, indexFile>>: the store afterwards.
CreateStore(ds, file, id, name, ctype, include_images, lv, fr, now) ==
    LET cp == CheckpointOf(id, name, ctype, include_images, lv, fr, now)
        d == <<now, id>>
        index == LoadIndexOf(file)
    IN  [dirs |-> Put(ds, d, FolderAfterCreate(ds, d, cp, include_images, lv, fr)),
         indexFile |-> SavedIndex([index EXCEPT !.checkpoints = Append(@, cp)], now),
         checkpoint |-> cp]

\* ---------------------------------------------------------- frame version
\* The FrameVersion record archive_frame builds.
FrameVersionOf(vid, f, iteration, notes, thumbOk, content, now) ==
    [version_id |-> vid,
     frame_id |-> f,
     iteration |-> iteration,
     created_at |-> now,
     image_path |-> <<f, iteration, now>>,
     thumbnail_path |-> IF thumbOk THEN vid ELSE "",
     healing_notes |-> notes,
     continuity_score |-> 0,
     file_size_bytes |-> SizeOf(content),
     prompt_snapshot |-> ""]

NoVersion == [version_id |-> ""]

\* An iteration that repeats the one of the last version.
NextIteration_repeating(vs) == IF Len(vs) = 0 THEN 1 ELSE Len(vs)

\* iteration = len(versions) + 1
NextIteration(vs) == Len(vs) + 1

\* An archive_frame that gives up when no thumbnail could be made.
ArchiveStore_thumbfirst(vs, th, file, f, notes, vid, thumbOk, fr, now) ==
    IF fr[f] = Absent \/ ~thumbOk
    THEN [versions |-> vs, thumbs |-> th, indexFile |-> file, version |-> NoVersion]
    ELSE LET index == LoadIndexOf(file)
             iteration == NextIteration(index.frame_versions[f])
             v == FrameVersionOf(vid, f, iteration, notes, thumbOk, fr[f], now)
         IN  [versions |-> Put(vs, <<f, iteration, now>>, fr[f]),
              thumbs |-> th \cup {vid},
              indexFile |-> SavedIndex(
                  [index EXCEPT !.frame_versions[f] = Append(@, v)], now),
              version |-> v]

\* An archive_frame that does not look for the live image first.
ArchiveStore_eager(vs, th, file, f, notes, vid, thumbOk, fr, now) ==
    LET index == LoadIndexOf(file)
        iteration == NextIteration(index.frame_versions[f])
        v == FrameVersionOf(vid, f, iteration, notes, thumbOk, fr[f], now)
    IN  [versions |-> Put(vs, <<f, iteration, now>>, fr[f]),
         thumbs |-> IF thumbOk THEN th \cup {vid} ELSE th,
         indexFile |-> SavedIndex(
             [index EXCEPT !.frame_versions[f] = Append(@, v)], now),
         version |-> v]

\* archive_frame on the archive <<versions, thumbs, indexFile>>: the archive
\* afterwards and the version returned (NoVersion for None).
ArchiveStore(vs, th, file, f, notes, vid, thumbOk, fr, now) ==
    IF fr[f] = Absent
    THEN [versions |-> vs, thumbs |-> th, indexFile |-> file, version |-> NoVersion]
    ELSE LET index == LoadIndexOf(file)
             iteration == NextIteration(index.frame_versions[f])
             v == FrameVersionOf(vid, f, iteration, notes, thumbOk, fr[f], now)
         IN  [versions |-> Put(vs, <<f, iteration, now>>, fr[f]),
              thumbs |-> IF thumbOk THEN th \cup {vid} ELSE th,
              indexFile |-> SavedIndex(
                  [index EXCEPT !.frame_versions[f] = Append(@, v)], now),
              version |-> v]

\* ---------------------------------------------------------------- history
NoTrip == [phase |-> 0]
NoArch == [phase |-> 0]

\* The history of an archive_frame call whose version a failing
\* restore_frame_version was asked for.
ArchFailed(a, f, version_id) ==
    IF a.phase = 1 /\ a.frame_id = f /\ a.version_id = version_id
    THEN [a EXCEPT !.phase = 3] ELSE NoArch

Result(op, arg, success, error, ret) ==
    [op |-> op, arg |-> arg, success |-> success, error |-> error, ret |-> ret]

InitWith(budget, fresh) ==
    /\ clock = 0
    /\ live = [p \in Paths |-> Absent]
    /\ frames = [f \in FrameIds |-> Absent]
    /\ backups = << >>
    /\ dirs = << >>
    /\ indexFile = NoFile
    /\ versions = << >>
    /\ thumbs = {}
    /\ result = Result("none", "", TRUE, "", "")
    /\ procs = [p \in Procs |-> Idle]
    /\ hist = [budget |-> budget, fresh |-> fresh, issued |-> 0,
               calls |-> 0, writes |-> 0,
               creates |-> 0, deletes |-> 0, deleted |-> {},
               archived |-> [f \in FrameIds |-> 0],
               trip |-> NoTrip, arch |-> NoArch]

Init == InitWith(MaxSteps, FALSE)
InitDeep == InitWith(DeepSteps, FALSE)
InitUnique == InitWith(DeepSteps, TRUE)

\* The ids uuid4 may return next: any id, or in the runs without
\* coincidences the next id of FreshPool.
NewIds == IF hist.fresh THEN {FreshPool[hist.issued + 1]} ELSE Ids
\* The ids a caller may pass: any id, or in the runs without coincidences
\* the ids generated so far and an unknown one.
ArgIds == IF hist.fresh
          THEN {FreshPool[i] : i \in 1 .. hist.issued} \cup {UnknownId}
          ELSE Ids
\* The count of generated ids, kept in the runs without coincidences.
Issued(h, n) == IF h.fresh THEN h.issued + n ELSE h.issued

\* There is room in the run for one more call or write.
Room == hist.calls + hist.writes < hist.budget

\* ------------------------------------------------------------ environment
\* A second passes.
Tick ==
    /\ clock < MaxClock
    /\ clock' = clock + 1
    /\ UNCHANGED <<fs, result, hist, procs>>

\* A generation pipeline writes an artifact file.
PipelineWrite(p, c) ==
    /\ Room
    /\ live' = [live EXCEPT ![p] = c]
    /\ hist' = [hist EXCEPT !.writes = @ + 1, !.trip = NoTrip, !.arch = NoArch]
    /\ UNCHANGED <<clock, frames, backups, dirs, indexFile, versions, thumbs, result, procs>>

\* The owner of the project directory removes an artifact file.
ArtifactRemove(p) ==
    /\ Room
    /\ live[p] # Absent
    /\ live' = [live EXCEPT ![p] = Absent]
    /\ hist' = [hist EXCEPT !.writes = @ + 1, !.trip = NoTrip, !.arch = NoArch]
    /\ UNCHANGED <<clock, frames, backups, dirs, indexFile, versions, thumbs, result, procs>>

\* The image generator writes the frame image <f>.png.
FrameWrite(f, c) ==
    /\ Room
    /\ frames' = [frames EXCEPT ![f] = c]
    /\ hist' = [hist EXCEPT !.writes = @ + 1, !.trip = NoTrip,
                            !.arch = IF @.phase = 1 /\ @.frame_id = f
                                     THEN @ ELSE NoArch]
    /\ UNCHANGED <<clock, live, backups, dirs, indexFile, versions, thumbs, result, procs>>

\* ------------------------------------------------------ create_checkpoint
\* A create_checkpoint that moves the artifact files into the folder.
CreateCheckpoint_moving(name, include_images, id) ==
    /\ Room
    /\ UNCHANGED procs
    /\ LET st == CreateStore(dirs, indexFile, id, name, "manual",
                             include_images, live, frames, clock)
       IN  /\ dirs' = st.dirs
           /\ indexFile' = st.indexFile
           /\ result' = Result("create_checkpoint", name, TRUE, "", id)
    /\ live' = [p \in Paths |-> Absent]
    /\ hist' = [hist EXCEPT !.calls = @ + 1, !.creates = @ + 1,
                            !.issued = Issued(hist, 1),
                            !.deleted = @ \ {id},
                            !.trip = NoTrip, !.arch = NoArch]
    /\ UNCHANGED <<clock, frames, backups, versions, thumbs>>

CreateCheckpoint(name, include_images, id) ==
    /\ Room
    /\ UNCHANGED procs
    /\ LET st == CreateStore(dirs, indexFile, id, name, "manual",
                             include_images, live, frames, clock)
       IN  /\ dirs' = st.dirs
           /\ indexFile' = st.indexFile
           /\ result' = Result("create_checkpoint", name, TRUE, "", id)
    /\ hist' = [hist EXCEPT !.calls = @ + 1, !.creates = @ + 1,
                            !.issued = Issued(hist, 1),
                            !.deleted = @ \ {id},
                            !.trip = NoTrip, !.arch = NoArch]
    /\ UNCHANGED <<clock, live, frames, backups, versions, thumbs>>

\* The checkpoint folder when shutil.copy2 raises on the k-th file of
\* CHECKPOINT_FILES: mkdir has made the folder, the files before the k-th
\* are copied, no manifest is written.
FolderCopiedUpTo(ds, d, k, lv) ==
    LET base == IF d \in DOMAIN ds THEN ds[d] ELSE EmptyDir
    IN  [base EXCEPT !.files = [b \in Basenames |->
            LET j == CHOOSE i \in DOMAIN CHECKPOINT_FILES :
                         Basename(CHECKPOINT_FILES[i]) = b
            IN  IF j < k /\ lv[CHECKPOINT_FILES[j]] # Absent
                THEN lv[CHECKPOINT_FILES[j]] ELSE base.files[b]]]

\* create_checkpoint when the copy of the k-th file of CHECKPOINT_FILES fails
\* (disk full, permission denied): the copy loop has no handler, so the
\* OSError leaves create_checkpoint before the index is touched.
CreateCheckpointRaises(name, id, k) ==
    /\ Room
    /\ UNCHANGED procs
    /\ live[CHECKPOINT_FILES[k]] # Absent
    /\ dirs' = Put(dirs, <<clock, id>>, FolderCopiedUpTo(dirs, <<clock, id>>, k, live))
    /\ result' = [op |-> "create_checkpoint", arg |-> name, success |-> FALSE,
                  error |-> "", ret |-> "", raised |-> "OSError"]
    /\ hist' = [hist EXCEPT !.calls = @ + 1,
                            !.issued = Issued(hist, 1),
                            !.trip = NoTrip, !.arch = NoArch]
    /\ UNCHANGED <<clock, live, frames, backups, indexFile, versions, thumbs>>

\* ----------------------------------------------------- restore_checkpoint
\* A lookup that takes every entry for a match.
Entries_any(index, id) == DOMAIN index.checkpoints

\* A removal of the first entry, whichever was asked for.
Pop_first(s, i) == Tail(s)

\* A removal that leaves the list as it is.
Pop_keeping(s, i) == s

\* The positions of the index entries with this id.
Entries(index, id) ==
    {i \in DOMAIN index.checkpoints : index.checkpoints[i].checkpoint_id = id}

Min(S) == CHOOSE x \in S : \A y \in S : x <= y

\* The directories the loop over checkpoints_dir.iterdir() can stop at:
\* iterdir yields in no particular order, and the first match is taken.
Matching(ds, id) == {d \in DOMAIN ds : NameContains(d, id)}

\* A restore that makes no checkpoint of the current state.
AutoCheckpoint_skipping(ds, file, newid, lv, fr, now) ==
    [dirs |-> ds, indexFile |-> file]

\* The checkpoint restore_checkpoint makes of the current state when
\* archive_current is set: kind auto, images included by default.
AutoCheckpoint(ds, file, newid, lv, fr, now) ==
    CreateStore(ds, file, newid, "Before restore", "auto", TRUE, lv, fr, now)

\* The live artifact files after the known file names present in the
\* folder were copied to their destinations.
RestoredFiles(folder, lv) ==
    [p \in Paths |->
        LET srcs == {b \in Range(RESTORE_FILES) :
                        RestoreDst(b) = p /\ folder.files[b] # Absent}
        IN  IF srcs = {} THEN lv[p] ELSE folder.files[CHOOSE b \in srcs : TRUE]]

\* The backup folder after every live frame image was moved into it under
\* <stem>_prerestore_<timestamp>.png.
MovedToBackups(bk, fr, now) ==
    LET moved == {<<f, now>> : f \in LiveFrameIds(fr)}
    IN  [b \in DOMAIN bk \cup moved |->
            IF b \in moved THEN fr[b[1]] ELSE bk[b]]

RestoreCheckpoint(checkpoint_id, archive_current, newid) ==
    LET index == LoadIndexOf(indexFile)
        found == Entries(index, checkpoint_id)
    IN  /\ Room
        /\ UNCHANGED procs
        /\ IF found = {}
            THEN /\ result' = Result("restore_checkpoint", checkpoint_id, FALSE,
                                     "Checkpoint not found", "")
                 /\ hist' = [hist EXCEPT !.calls = @ + 1, !.trip = NoTrip, !.arch = NoArch]
                 /\ UNCHANGED <<clock, fs>>
            ELSE IF Matching(dirs, checkpoint_id) = {}
            THEN /\ result' = Result("restore_checkpoint", checkpoint_id, FALSE,
                                     "Checkpoint directory not found", "")
                 /\ hist' = [hist EXCEPT !.calls = @ + 1, !.trip = NoTrip, !.arch = NoArch]
                 /\ UNCHANGED <<clock, fs>>
            ELSE \E d \in Matching(dirs, checkpoint_id) :
                 /\ LET st == IF archive_current
                              THEN AutoCheckpoint(dirs, indexFile, newid,
                                                  live, frames, clock)
                              ELSE [dirs |-> dirs, indexFile |-> indexFile]
                        folder == st.dirs[d]
                    IN  /\ dirs' = st.dirs
                        /\ indexFile' = st.indexFile
                        /\ live' = RestoredFiles(folder, live)
                        /\ IF folder.hasFrames
                           THEN /\ backups' = MovedToBackups(backups, frames, clock)
                                /\ frames' = folder.frames
                           ELSE UNCHANGED <<backups, frames>>
                 /\ result' = Result("restore_checkpoint", checkpoint_id, TRUE, "",
                                     IF archive_current THEN newid ELSE "")
                 /\ hist' = [hist EXCEPT !.calls = @ + 1,
                        !.creates = IF archive_current THEN @ + 1 ELSE @,
                        !.issued = Issued(hist, IF archive_current THEN 1 ELSE 0),
                    !.deleted = IF archive_current THEN @ \ {newid} ELSE @,
                        !.arch = NoArch,
                        !.trip = IF @.phase = 1 /\ @.auto = checkpoint_id
                                 THEN [@ EXCEPT !.phase = 2]
                                 ELSE IF archive_current
                                      THEN [phase |-> 1, live |-> live,
                                            frames |-> frames, auto |-> newid]
                                      ELSE NoTrip]
                 /\ UNCHANGED <<clock, versions, thumbs>>

\* ------------------------------------------------------ delete_checkpoint
\* index.checkpoints.pop(i)
Pop(s, i) == SubSeq(s, 1, i - 1) \o SubSeq(s, i + 1, Len(s))

DeleteCheckpoint(checkpoint_id) ==
    LET index == LoadIndexOf(indexFile)
        found == Entries(index, checkpoint_id)
    IN  /\ Room
        /\ UNCHANGED procs
        /\ IF found = {}
            THEN /\ result' = Result("delete_checkpoint", checkpoint_id, FALSE,
                                     "Checkpoint not found", "")
                 /\ hist' = [hist EXCEPT !.calls = @ + 1, !.trip = NoTrip, !.arch = NoArch]
                 /\ UNCHANGED <<clock, fs>>
            ELSE /\ IF Matching(dirs, checkpoint_id) = {}
                    THEN UNCHANGED dirs
                    ELSE \E d \in Matching(dirs, checkpoint_id) :
                            dirs' = Drop(dirs, d)
                 /\ indexFile' = SavedIndex(
                        [index EXCEPT !.checkpoints = Pop(@, Min(found))], clock)
                 /\ result' = Result("delete_checkpoint", checkpoint_id, TRUE, "", "")
                 /\ hist' = [hist EXCEPT !.calls = @ + 1, !.deletes = @ + 1,
                                         !.deleted = @ \cup {checkpoint_id},
                                         !.trip = NoTrip, !.arch = NoArch]
                 /\ UNCHANGED <<clock, live, frames, backups, versions, thumbs>>

\* ---------------------------------------------------------- archive_frame
ArchiveFrame(f, vid, thumbOk) ==
    /\ Room
    /\ UNCHANGED procs
    /\ LET st == ArchiveStore(versions, thumbs, indexFile, f,
                              "Manual regeneration", vid, thumbOk, frames, clock)
       IN  /\ versions' = st.versions
           /\ thumbs' = st.thumbs
           /\ indexFile' = st.indexFile
           /\ result' = Result("archive_frame", f, TRUE, "", st.version.version_id)
           /\ hist' = [hist EXCEPT !.calls = @ + 1,
                  !.archived[f] = IF st.version = NoVersion THEN @ ELSE @ + 1,
                  !.issued = Issued(hist, IF st.version = NoVersion THEN 0 ELSE 1),
                  !.trip = NoTrip,
                  !.arch = IF st.version = NoVersion THEN NoArch
                           ELSE [phase |-> 1, frame_id |-> f,
                                 version_id |-> vid, content |-> frames[f]]]
    /\ UNCHANGED <<clock, live, frames, backups, dirs>>

\* -------------------------------------------------- restore_frame_version
\* A lookup that takes the first version, whatever its id.
FindVersion_head(vs, version_id) ==
    IF vs = << >> THEN NoVersion ELSE vs[1]

\* The first version of the list with this id, or NoVersion.
FindVersion(vs, version_id) ==
    LET found == {i \in DOMAIN vs : vs[i].version_id = version_id}
    IN  IF found = {} THEN NoVersion ELSE vs[Min(found)]

RestoreFrameVersion(f, version_id, vid, thumbOk) ==
    LET index == LoadIndexOf(indexFile)
        version == FindVersion(index.frame_versions[f], version_id)
    IN  /\ Room
        /\ UNCHANGED procs
        /\ IF version = NoVersion
            THEN /\ result' = Result("restore_frame_version", version_id, FALSE,
                                     "Version not found", "")
                 /\ hist' = [hist EXCEPT !.calls = @ + 1, !.trip = NoTrip,
                                         !.arch = ArchFailed(@, f, version_id)]
                 /\ UNCHANGED <<clock, fs>>
            ELSE IF At(versions, version.image_path) = Absent
            THEN /\ result' = Result("restore_frame_version", version_id, FALSE,
                                     "Archived image not found", "")
                 /\ hist' = [hist EXCEPT !.calls = @ + 1, !.trip = NoTrip,
                                         !.arch = ArchFailed(@, f, version_id)]
                 /\ UNCHANGED <<clock, fs>>
            ELSE /\ LET st == ArchiveStore(versions, thumbs, indexFile, f,
                                           "Before restore", vid, thumbOk, frames, clock)
                    IN  /\ versions' = st.versions
                        /\ thumbs' = st.thumbs
                        /\ indexFile' = st.indexFile
                        /\ frames' = [frames EXCEPT ![f] = st.versions[version.image_path]]
                        /\ hist' = [hist EXCEPT !.calls = @ + 1,
                              !.archived[f] = IF st.version = NoVersion THEN @ ELSE @ + 1,
                              !.issued = Issued(hist, IF st.version = NoVersion THEN 0 ELSE 1),
                              !.trip = NoTrip,
                              !.arch = IF @.phase = 1 /\ @.frame_id = f
                                          /\ @.version_id = version_id
                                       THEN [@ EXCEPT !.phase = 2] ELSE NoArch]
                 /\ result' = Result("restore_frame_version", version_id, TRUE, "",
                                     version.version_id)
                 /\ UNCHANGED <<clock, live, backups, dirs>>

\* ------------------------------------------------------ get_storage_stats
RECURSIVE SumVersionSizes(_)
SumVersionSizes(vs) ==
    IF vs = << >> THEN 0 ELSE Head(vs).file_size_bytes + SumVersionSizes(Tail(vs))

RECURSIVE SumCheckpointSizes(_)
SumCheckpointSizes(cps) ==
    IF cps = << >> THEN 0
    ELSE Head(cps).file_size_bytes + SumCheckpointSizes(Tail(cps))

RECURSIVE CountVersions(_, _)
CountVersions(fvs, S) ==
    IF S = {} THEN 0
    ELSE LET f == CHOOSE g \in S : TRUE
         IN  Len(fvs[f]) + CountVersions(fvs, S \ {f})

RECURSIVE SumAllVersionSizes(_, _)
SumAllVersionSizes(fvs, S) ==
    IF S = {} THEN 0
    ELSE LET f == CHOOSE g \in S : TRUE
         IN  SumVersionSizes(fvs[f]) + SumAllVersionSizes(fvs, S \ {f})

\* The StorageStats get_storage_stats computes from an index file.
StorageStatsOf(file) ==
    LET index == LoadIndexOf(file)
    IN  [total_checkpoints |-> Len(index.checkpoints),
         total_versions |-> CountVersions(index.frame_versions, FrameIds),
         total_size_bytes |-> SumCheckpointSizes(index.checkpoints)
                              + SumAllVersionSizes(index.frame_versions, FrameIds)]

GetStorageStats ==
    /\ Room
    /\ result' = [op |-> "get_storage_stats", arg |-> "", success |-> TRUE,
                  error |-> "", ret |-> "", stats |-> StorageStatsOf(indexFile)]
    /\ hist' = [hist EXCEPT !.calls = @ + 1]
    /\ UNCHANGED <<clock, fs, procs>>

\* ----------------------------------------------------- get_all_checkpoints
\* One read of the index file, whatever the other handlers are doing.
GetAllCheckpoints ==
    /\ Room
    /\ result' = [op |-> "get_all_checkpoints", arg |-> "", success |-> TRUE,
                  error |-> "", ret |-> "",
                  checkpoints |-> LoadIndexOf(indexFile).checkpoints]
    /\ hist' = [hist EXCEPT !.calls = @ + 1]
    /\ UNCHANGED <<clock, fs, procs>>

Names == {"v1"}

EnvNext ==
    \/ Tick
    \/ \E p \in ProjectFiles, c \in Contents : PipelineWrite(p, c)
    \/ \E p \in ProjectFiles : ArtifactRemove(p)
    \/ \E f \in FrameIds, c \in Contents : FrameWrite(f, c)

CreateNext ==
    \E name \in Names, include_images \in BOOLEAN, id \in NewIds :
        CreateCheckpoint(name, include_images, id)

\* Sequences of create_checkpoint calls on a project the pipelines write.
SpecCreate == Init /\ [][EnvNext \/ CreateNext]_vars

ServiceNext ==
    \/ CreateNext
    \/ \E id \in ArgIds, archive_current \in BOOLEAN, newid \in NewIds :
          RestoreCheckpoint(id, archive_current, newid)
    \/ \E id \in ArgIds : DeleteCheckpoint(id)
    \/ \E f \in FrameIds, vid \in NewIds, thumbOk \in BOOLEAN :
          ArchiveFrame(f, vid, thumbOk)
    \/ \E f \in FrameIds, version_id \in ArgIds, vid \in NewIds,
          thumbOk \in BOOLEAN :
          RestoreFrameVersion(f, version_id, vid, thumbOk)
    \/ GetStorageStats

Next == EnvNext \/ ServiceNext

\* The service called by one caller at a time, on a project the pipelines
\* write between the calls.
Spec == Init /\ [][Next]_vars

\* The same service in longer runs, on a project in which only the frame
\* images are written between the calls.
DeepNext ==
    \/ Tick
    \/ \E f \in FrameIds, c \in Contents : FrameWrite(f, c)
    \/ ServiceNext

SpecDeep == InitDeep /\ [][DeepNext]_vars

\* The longer runs in which no generated id coincides with another one or
\* with the day of a timestamp.
SpecUnique == InitUnique /\ [][Next]_vars

\* The service on a file system whose copies may fail.
IOFailNext ==
    \E name \in Names, id \in NewIds, k \in DOMAIN CHECKPOINT_FILES :
        CreateCheckpointRaises(name, id, k)

SpecIO == Init /\ [][Next \/ IOFailNext]_vars

\* The owner of the project directory removes an archived frame image, which
\* leaves the version that names it dangling.
VersionFileRemove(path) ==
    /\ Room
    /\ path \in DOMAIN versions
    /\ versions' = Drop(versions, path)
    /\ hist' = [hist EXCEPT !.writes = @ + 1, !.trip = NoTrip, !.arch = NoArch]
    /\ UNCHANGED <<clock, live, frames, backups, dirs, indexFile, thumbs, result, procs>>

\* The frame operations of the service, on a project whose archived images
\* may be removed between the calls.
FramesNext ==
    \/ \E f \in FrameIds, c \in Contents : FrameWrite(f, c)
    \/ \E f \in FrameIds, vid \in NewIds, thumbOk \in BOOLEAN :
          ArchiveFrame(f, vid, thumbOk)
    \/ \E f \in FrameIds, version_id \in ArgIds, vid \in NewIds, thumbOk \in BOOLEAN :
          RestoreFrameVersion(f, version_id, vid, thumbOk)
    \/ \E path \in DOMAIN versions : VersionFileRemove(path)

SpecFrames == InitDeep /\ [][FramesNext]_vars

\* ------------------------------------------------ the handlers, step by step
\* The service has no lock: request handlers of one project run at once,
\* and each reads and writes the index file in steps of its own.

Proc(p, rec) == [procs EXCEPT ![p] = rec]

\* create_checkpoint up to the manifest: the folder is made and filled.
CcBegin(p, name, include_images, id) ==
    /\ procs[p].pc = "idle"
    /\ Room
    /\ LET cp == CheckpointOf(id, name, "manual", include_images, live, frames, clock)
           d == <<clock, id>>
       IN  /\ dirs' = Put(dirs, d, FolderAfterCreate(dirs, d, cp, include_images,
                                                      live, frames))
           /\ procs' = Proc(p, [pc |-> "cc_load", cp |-> cp])
    /\ hist' = [hist EXCEPT !.calls = @ + 1, !.issued = Issued(hist, 1),
                            !.deleted = @ \ {id}]
    /\ UNCHANGED <<clock, live, frames, backups, indexFile, versions, thumbs, result>>

\* index = self._load_index(); index.checkpoints.append(checkpoint)
CcLoad(p) ==
    /\ procs[p].pc = "cc_load"
    /\ procs' = Proc(p, [pc |-> "save_open", op |-> "create_checkpoint",
                         ret |-> procs[p].cp.checkpoint_id, frame_id |-> "",
                         prev |-> indexFile,
                         index |-> [LoadIndexOf(indexFile) EXCEPT
                                       !.checkpoints = Append(@, procs[p].cp)]])
    /\ UNCHANGED <<clock, fs, result, hist>>

\* archive_frame up to the iteration: the live image is looked for, the
\* index loaded.
AfLoad(p, f, vid) ==
    /\ procs[p].pc = "idle"
    /\ Room
    /\ IF frames[f] = Absent
       THEN /\ result' = Result("archive_frame", f, TRUE, "", "")
            /\ UNCHANGED procs
       ELSE /\ procs' = Proc(p,
                  LET index == LoadIndexOf(indexFile)
                  IN  [pc |-> "af_copy", index |-> index, frame_id |-> f,
                       version_id |-> vid, now |-> clock,
                       iteration |-> NextIteration(index.frame_versions[f])])
            /\ UNCHANGED result
    /\ hist' = [hist EXCEPT !.calls = @ + 1,
                            !.issued = Issued(hist, IF frames[f] = Absent THEN 0 ELSE 1)]
    /\ UNCHANGED <<clock, fs>>

\* shutil.copy2(current_frame, archived_path), the thumbnail, the append
AfCopy(p, thumbOk) ==
    /\ procs[p].pc = "af_copy"
    /\ LET me == procs[p]
           f == me.frame_id
           v == FrameVersionOf(me.version_id, f, me.iteration,
                               "Manual regeneration", thumbOk, frames[f], clock)
       IN  /\ versions' = Put(versions, <<f, me.iteration, me.now>>, frames[f])
           /\ thumbs' = IF thumbOk THEN thumbs \cup {me.version_id} ELSE thumbs
           /\ procs' = Proc(p, [pc |-> "save_open", op |-> "archive_frame",
                                ret |-> me.version_id, frame_id |-> f,
                                prev |-> indexFile,
                                index |-> [me.index EXCEPT
                                              !.frame_versions[f] = Append(@, v)]])
    /\ UNCHANGED <<clock, live, frames, backups, dirs, indexFile, result, hist>>

\* _save_index: last_updated is set and write_text opens the file for
\* writing, which cuts it to nothing.
SaveOpen(p) ==
    /\ procs[p].pc = "save_open"
    /\ indexFile' = PartialFile
    /\ procs' = Proc(p, [procs[p] EXCEPT !.pc = "save_write",
                                         !.index.last_updated = clock])
    /\ UNCHANGED <<clock, live, frames, backups, dirs, versions, thumbs, result, hist>>

\* _save_index: the document is written out and the file closed; the call
\* returns.
SaveWrite(p) ==
    /\ procs[p].pc = "save_write"
    /\ indexFile' = [st |-> "ok", idx |-> procs[p].index]
    /\ procs' = Proc(p, Idle)
    /\ result' = Result(procs[p].op, "", TRUE, "", procs[p].ret)
    /\ hist' = IF procs[p].op = "create_checkpoint"
               THEN [hist EXCEPT !.creates = @ + 1]
               ELSE [hist EXCEPT !.archived[procs[p].frame_id] = @ + 1]
    /\ UNCHANGED <<clock, live, frames, backups, dirs, versions, thumbs>>

\* The process running handler p stops (the server is killed) in the
\* middle of a call; the handler is free for the next request.
Crash(p) ==
    /\ procs[p].pc # "idle"
    /\ procs' = Proc(p, Idle)
    /\ result' = [op |-> "crash", arg |-> procs[p].pc, success |-> FALSE,
                  error |-> "", ret |-> "",
                  call |-> procs[p]]
    /\ UNCHANGED <<clock, fs, hist>>

StepNext(p) ==
    \/ \E name \in Names, include_images \in BOOLEAN, id \in NewIds :
          CcBegin(p, name, include_images, id)
    \/ CcLoad(p)
    \/ \E f \in FrameIds, vid \in NewIds : AfLoad(p, f, vid)
    \/ \E thumbOk \in BOOLEAN : AfCopy(p, thumbOk)
    \/ SaveOpen(p)
    \/ SaveWrite(p)

FrameNext == \E f \in FrameIds, c \in Contents : FrameWrite(f, c)

\* Request handlers of one project running at once.
SpecConc ==
    InitUnique /\ [][FrameNext \/ GetAllCheckpoints \/ \E p \in Procs : StepNext(p)]_vars

\* The calls a handler at rest takes and runs to their end.
WholeNext(p) ==
    \/ \E id \in ArgIds : procs[p].pc = "idle" /\ DeleteCheckpoint(id)
    \/ \E id \in ArgIds, archive_current \in BOOLEAN, newid \in NewIds :
          procs[p].pc = "idle" /\ RestoreCheckpoint(id, archive_current, newid)

\* One request handler, in a process that may be killed at any step of
\* create_checkpoint and archive_frame.
SpecCrash == Init /\ [][FrameNext \/ StepNext(1) \/ Crash(1) \/ WholeNext(1)]_vars

\* =================================================================== claims
\* The folder create_checkpoint made for an index entry.
OwnFolder(cp) == <<cp.created_at, cp.checkpoint_id>>

\* C1: after any sequence of create_checkpoint calls the index holds exactly
\* one entry per call, no two entries share an id, and each entry's id
\* resolves to the folder made for it and to no other folder.
C1_OneEntryPerCreate ==
    LET cps == LoadIndexOf(indexFile).checkpoints
    IN  /\ Len(cps) = hist.creates
        /\ \A i, j \in DOMAIN cps :
              i # j => cps[i].checkpoint_id # cps[j].checkpoint_id
        /\ \A i \in DOMAIN cps :
              Matching(dirs, cps[i].checkpoint_id) = {OwnFolder(cps[i])}

\* C2: when create_checkpoint calls on one project run at once, the
\* persisted index holds the entry of every call that has returned.
C2_NoEntryDropped ==
    (\A p \in Procs : procs[p].pc = "idle")
        => Len(LoadIndexOf(indexFile).checkpoints) = hist.creates

\* C5: when the process stops during _save_index, the index file is the
\* complete previous document or the complete new one.
C5_SaveAtomic ==
    (result.op = "crash" /\ result.arg \in {"save_open", "save_write"})
        => \/ indexFile = result.call.prev
           \/ indexFile = [st |-> "ok", idx |-> result.call.index]

\* C3: restoring a checkpoint with archive_current and then restoring the
\* "Before restore" checkpoint made on the way leaves the live artifact
\* files and the live frame images as they were before the first restore.
C3_RoundTrip ==
    hist.trip.phase = 2
        => /\ live = hist.trip.live
           /\ frames = hist.trip.frames

\* C4: the iterations in a frame's version history are 1..N in list order,
\* N being the number of archive_frame calls for the frame that made a
\* version, those inside restore_frame_version included.
C4_IterationsDense ==
    \A f \in FrameIds :
        LET vs == LoadIndexOf(indexFile).frame_versions[f]
        IN  /\ Len(vs) = hist.archived[f]
            /\ \A i \in DOMAIN vs : vs[i].iteration = i

\* A history of two versions, the second made inside restore_frame_version.
C4_Witness ==
    \E f \in FrameIds :
        LET vs == LoadIndexOf(indexFile).frame_versions[f]
        IN  /\ Len(vs) = 2
            /\ vs[2].healing_notes = "Before restore"
            /\ result.op = "restore_frame_version" /\ result.success

\* Every id a call may carry.
AllIds == Ids \cup Range(FreshPool) \cup {UnknownId}

\* The index has an entry with this id; a folder made for this id is there.
HasEntry(file, id) == Entries(LoadIndexOf(file), id) # {}
HasFolder(ds, id) == \E d \in DOMAIN ds : d[2] = id

\* C6: after completed service operations every checkpoint folder and every
\* archived frame-version file has an index entry, and every index entry
\* has its folder or file.
C6_SingleSourceOfTruth ==
    LET index == LoadIndexOf(indexFile)
        cps == index.checkpoints
        fvs == index.frame_versions
    IN  (\A p \in Procs : procs[p].pc = "idle")
        => /\ \A d \in DOMAIN dirs : \E i \in DOMAIN cps : OwnFolder(cps[i]) = d
           /\ \A i \in DOMAIN cps : OwnFolder(cps[i]) \in DOMAIN dirs
           /\ \A v \in DOMAIN versions :
                 \E f \in FrameIds : \E j \in DOMAIN fvs[f] : fvs[f][j].image_path = v
           /\ \A f \in FrameIds : \A j \in DOMAIN fvs[f] :
                 fvs[f][j].image_path \in DOMAIN versions

\* A copy of an artifact file's content is kept in some checkpoint folder.
KeptFile(ds, p, c) == \E d \in DOMAIN ds : ds[d].files[Basename(p)] = c
\* A copy of a frame image's content is kept in the backup folder, in some
\* checkpoint folder or in the frame's version archive.
KeptFrame(bk, ds, vs, f, c) ==
    \/ \E b \in DOMAIN bk : b[1] = f /\ bk[b] = c
    \/ \E d \in DOMAIN ds : ds[d].frames[f] = c
    \/ \E v \in DOMAIN vs : v[1] = f /\ vs[v] = c

\* A service call that ran in this step and returned from this operation.
Returned(op) ==
    /\ hist'.calls = hist.calls + 1
    /\ result'.op = op
    /\ UNCHANGED procs

\* C7: for every live artifact file and live frame image whose content a
\* restore replaces, a copy of the content it had is kept in a checkpoint
\* folder, the backup folder or the version archive, whatever the value of
\* archive_current.
C7_RestoreKeepsBackup ==
    [][(Returned("restore_checkpoint") \/ Returned("restore_frame_version"))
        => /\ \A p \in Paths :
                 (live[p] # Absent /\ live'[p] # live[p])
                     => KeptFile(dirs', p, live[p])
           /\ \A f \in FrameIds :
                 (frames[f] # Absent /\ frames'[f] # frames[f])
                     => KeptFrame(backups', dirs', versions', f, frames[f])]_vars

\* C8: restore_frame_version of the version archive_frame has just returned,
\* the live image left alone or overwritten in between, succeeds and leaves
\* the live image with the content it had when it was archived.
C8_ArchiveThenRestore ==
    hist.arch.phase \in {2, 3}
        => /\ hist.arch.phase = 2
           /\ result.success
           /\ frames[hist.arch.frame_id] = hist.arch.content

\* C9: delete_checkpoint on an id with an index entry and no folder, or with
\* a folder and no index entry, succeeds and leaves neither an index entry
\* nor a folder for the id.
C9_DeleteForgiving ==
    [][\A id \in AllIds :
          (/\ Returned("delete_checkpoint")
           /\ result'.arg = id
           /\ HasEntry(indexFile, id) # HasFolder(dirs, id))
              => /\ result'.success
                 /\ ~HasEntry(indexFile', id)
                 /\ ~HasFolder(dirs', id)]_vars

\* C10: restore_checkpoint on an id that has an index entry while the folder
\* made for the entry is missing fails with an error other than the one for
\* an id absent from the index, and changes no file.
C10_MissingFolderInconsistent ==
    [][\A id \in AllIds :
          (/\ Returned("restore_checkpoint")
           /\ result'.arg = id
           /\ HasEntry(indexFile, id)
           /\ LET cps == LoadIndexOf(indexFile).checkpoints
              IN  \A i \in Entries(LoadIndexOf(indexFile), id) :
                     OwnFolder(cps[i]) \notin DOMAIN dirs)
              => /\ ~result'.success
                 /\ result'.error = "Checkpoint directory not found"
                 /\ UNCHANGED fs]_vars

\* C11: restore_checkpoint on an id that no index entry has returns a
\* failure saying the checkpoint is not found, and changes nothing: the index,
\* the checkpoint folders (no "Before restore" checkpoint) and the live files.
C11_RestoreUnknownId ==
    [][\A id \in AllIds :
          (/\ Returned("restore_checkpoint")
           /\ result'.arg = id
           /\ \A i \in DOMAIN LoadIndexOf(indexFile).checkpoints :
                 LoadIndexOf(indexFile).checkpoints[i].checkpoint_id # id)
              => /\ ~result'.success
                 /\ result'.error = "Checkpoint not found"
                 /\ UNCHANGED fs]_vars

\* restore_checkpoint has failed on an unknown id while the project has a
\* checkpoint and a live artifact file.
C11_Witness ==
    /\ result.op = "restore_checkpoint"
    /\ result.error = "Checkpoint not found"
    /\ LoadIndexOf(indexFile).checkpoints # << >>
    /\ DOMAIN dirs # {}
    /\ \E p \in Paths : live[p] # Absent

\* C12: restore_checkpoint of an id that delete_checkpoint has deleted, the
\* id not made again since, fails saying the checkpoint is not found.
C12_DeleteThenRestore ==
    [][\A id \in AllIds :
          (/\ Returned("restore_checkpoint")
           /\ result'.arg = id
           /\ id \in hist.deleted)
              => /\ ~result'.success
                 /\ result'.error = "Checkpoint not found"]_vars

\* C13: the total_checkpoints get_storage_stats returns is the number of
\* entries in the index, which is the number of checkpoints made (by
\* create_checkpoint and by restores) less the number deleted.
C13_StatsCountEntries ==
    [][Returned("get_storage_stats")
        => /\ result'.stats.total_checkpoints
                = Len(LoadIndexOf(indexFile).checkpoints)
           /\ result'.stats.total_checkpoints = hist.creates - hist.deletes]_vars

\* get_storage_stats has returned after a checkpoint was made and one was
\* deleted.
C13_Witness ==
    /\ result.op = "get_storage_stats"
    /\ hist.creates >= 1
    /\ hist.deletes >= 1

\* C14: a mutating operation whose file copy fails returns a success or error
\* result; no exception of the failed copy leaves the operation.
C14_NoExceptionEscapes ==
    "raised" \notin DOMAIN result

\* C15: get_all_checkpoints running while another handler saves the index
\* returns the checkpoints of the index as it was before that handler's
\* change or as it is after it, never those of a file half written.
C15_ReadSeesSnapshot ==
    [][Returned("get_all_checkpoints")
        => \A p \in Procs :
              procs[p].pc = "save_write"
                 => result'.checkpoints \in
                       {LoadIndexOf(procs[p].prev).checkpoints,
                        procs[p].index.checkpoints}]_vars

\* C16: when archive_frame calls for one frame have run at once and all have
\* returned (no other call having been made), the saved history of the frame
\* holds one version per call, and their iterations are 1, 2, ... in order:
\* none twice, none missing.
C16_ConcurrentArchive ==
    (/\ \A p \in Procs : procs[p].pc = "idle"
     /\ hist.creates = 0)
       => \A f \in FrameIds :
             LET vs == LoadIndexOf(indexFile).frame_versions[f]
             IN  /\ Len(vs) = hist.archived[f]
                 /\ \A i \in DOMAIN vs : vs[i].iteration = i

C18_VersionBeforeOverwrite ==
    [][\A f \in FrameIds :
          (/\ hist'.calls = hist.calls + 1
           /\ frames[f] # Absent
           /\ frames'[f] # frames[f])
             => LET old == LoadIndexOf(indexFile).frame_versions[f]
                    new == LoadIndexOf(indexFile').frame_versions[f]
                IN  /\ Len(new) = Len(old) + 1
                    /\ At(versions', new[Len(new)].image_path) = frames[f]]_vars

\* C19: create_checkpoint leaves the live artifact files and the live frame
\* images as they were: the same files, the same contents.
C19_CreateKeepsLive ==
    [][Returned("create_checkpoint") => UNCHANGED <<live, frames>>]_vars

\* create_checkpoint has returned on a project with a live artifact file and
\* a live frame image, both copied into a checkpoint folder.
C19_Witness ==
    /\ result.op = "create_checkpoint"
    /\ \E p \in Paths : live[p] # Absent /\ KeptFile(dirs, p, live[p])
    /\ \E f \in FrameIds, d \in DOMAIN dirs :
          frames[f] # Absent /\ dirs[d].frames[f] = frames[f]

\* C20: archive_frame on a frame with no live image returns no version and
\* no error, and leaves the index file, the archived images and the
\* thumbnails as they were.
C20_ArchiveMissingFrame ==
    [][(Returned("archive_frame") /\ frames[result'.arg] = Absent)
         => /\ result'.ret = ""
            /\ result'.success
            /\ result'.error = ""
            /\ UNCHANGED <<indexFile, versions, thumbs>>]_vars

\* archive_frame has returned no version for a frame with no live image,
\* on a project whose index file exists.
C20_Witness ==
    /\ result.op = "archive_frame"
    /\ result.ret = ""
    /\ frames[result.arg] = Absent
    /\ indexFile.st = "ok"

\* C21: a successful restore_checkpoint with archive_current set appends
\* one entry to the index, of kind auto, built from the live state as it
\* was when the call was made, whose folder holds a copy of every artifact
\* file and frame image that was live then; with archive_current unset the
\* list of entries is unchanged. No earlier entry is removed or moved.
C21_AutoCheckpointFirst ==
    [][(Returned("restore_checkpoint") /\ result'.success)
         => LET old == LoadIndexOf(indexFile).checkpoints
                new == LoadIndexOf(indexFile').checkpoints
            IN  IF result'.ret = ""
                THEN new = old
                ELSE /\ Len(new) = Len(old) + 1
                     /\ SubSeq(new, 1, Len(old)) = old
                     /\ new[Len(new)] = CheckpointOf(result'.ret, "Before restore",
                                            "auto", TRUE, live, frames, clock)
                     /\ OwnFolder(new[Len(new)]) \in DOMAIN dirs'
                     /\ LET folder == dirs'[OwnFolder(new[Len(new)])]
                        IN  /\ \A p \in Paths : live[p] # Absent
                                   => folder.files[Basename(p)] = live[p]
                            /\ \A f \in FrameIds : frames[f] # Absent
                                   => folder.frames[f] = frames[f]]_vars

\* A restore with archive_current set has returned, and the entry it
\* appended lists an artifact file that was live.
C21_Witness ==
    /\ result.op = "restore_checkpoint"
    /\ result.success
    /\ result.ret # ""
    /\ LET cps == LoadIndexOf(indexFile).checkpoints
       IN  /\ Len(cps) >= 2
           /\ cps[Len(cps)].checkpoint_type = "auto"
           /\ cps[Len(cps)].files_archived # << >>

\* C22: after a successful restore_checkpoint(A), every known artifact file
\* that the folder made for A holds is live with the folder's content; and
\* if that folder has a frames folder, every frame image that was live is
\* in the backup folder and the live frame images are those of the folder.
C22_RestoreReproduces ==
    [][(Returned("restore_checkpoint") /\ result'.success)
         => LET index == LoadIndexOf(indexFile)
                cp == index.checkpoints[Min(Entries(index, result'.arg))]
            IN  /\ OwnFolder(cp) \in DOMAIN dirs
                /\ LET A == dirs[OwnFolder(cp)]
                   IN  /\ \A b \in Basenames :
                             A.files[b] # Absent => live'[RestoreDst(b)] = A.files[b]
                       /\ A.hasFrames
                            => /\ frames' = A.frames
                               /\ \A f \in FrameIds :
                                     frames[f] # Absent
                                       => \E b \in DOMAIN backups' :
                                             b[1] = f /\ backups'[b] = frames[f]]_vars

\* C23: the total_frames of the entry create_checkpoint appends is the
\* number of entries of storyboard/prompts.json when that file is live, and
\* the number of frame images copied into the checkpoint when it is not.
C23_TotalFramesFallback ==
    [][Returned("create_checkpoint")
         => LET new == LoadIndexOf(indexFile').checkpoints
                cp == new[Len(new)]
            IN  cp.total_frames =
                   IF live["storyboard/prompts.json"] # Absent
                   THEN PromptsLen(live["storyboard/prompts.json"])
                   ELSE cp.frames_archived]_vars

\* C24: a successful restore_frame_version on a frame with a live image
\* appends one version to the frame's history, noted as made before a
\* restore, whose archived image is the image that was live; no archived
\* image is altered afterwards; and a successful restore_frame_version
\* asked for the id of such a version leaves the live image equal to that
\* version's archived image.
C24_RestoreVersionReversible ==
    [][\A f \in FrameIds :
          LET old == LoadIndexOf(indexFile).frame_versions[f]
              new == LoadIndexOf(indexFile').frame_versions[f]
          IN  /\ \A path \in DOMAIN versions :
                    path \in DOMAIN versions' /\ versions'[path] = versions[path]
              /\ (Returned("restore_frame_version") /\ result'.success)
                    => /\ frames[f] # Absent
                           => /\ Len(new) = Len(old) + 1
                              /\ SubSeq(new, 1, Len(old)) = old
                              /\ new[Len(new)].healing_notes = "Before restore"
                              /\ At(versions', new[Len(new)].image_path) = frames[f]
                       /\ \A i \in DOMAIN old :
                             (/\ old[i].version_id = result'.arg
                              /\ old[i].healing_notes = "Before restore")
                                => frames'[f] = At(versions, old[i].image_path)]_vars

\* C25: restore_frame_version asked for a version id that the frame's
\* history does not hold, or whose archived image is missing, fails with a
\* not-found error; no version is archived, and the index, the archive and
\* the live image are left as they were.
C25_RestoreVersionNotFound ==
    [][\A f \in FrameIds :
          LET old == LoadIndexOf(indexFile).frame_versions[f]
              named == {i \in DOMAIN old : old[i].version_id = result'.arg}
          IN  (/\ Returned("restore_frame_version")
               /\ \A i \in named : At(versions, old[i].image_path) = Absent)
                 => /\ ~result'.success
                    /\ result'.error = IF named = {} THEN "Version not found"
                                       ELSE "Archived image not found"
                    /\ UNCHANGED <<indexFile, versions, thumbs, frames>>]_vars

\* restore_frame_version has failed on a version of the history whose
\* archived image is missing, while the frame has a live image.
C25_Witness ==
    /\ result.op = "restore_frame_version"
    /\ result.error = "Archived image not found"
    /\ \E f \in FrameIds :
          /\ frames[f] # Absent
          /\ \E i \in DOMAIN LoadIndexOf(indexFile).frame_versions[f] :
                LoadIndexOf(indexFile).frame_versions[f][i].version_id = result.arg

\* C26: archive_frame on a frame with a live image returns a version,
\* whether a thumbnail could be made or not: the image is copied into the
\* archive, the version is appended to the frame's history in the saved
\* index, and the version names a thumbnail only if one was made.
C26_ThumbnailBestEffort ==
    [][(Returned("archive_frame") /\ frames[result'.arg] # Absent)
         => LET f == result'.arg
                old == LoadIndexOf(indexFile).frame_versions[f]
                new == LoadIndexOf(indexFile').frame_versions[f]
            IN  /\ result'.success
                /\ result'.ret # ""
                /\ indexFile'.st = "ok"
                /\ Len(new) = Len(old) + 1
                /\ SubSeq(new, 1, Len(old)) = old
                /\ new[Len(new)].version_id = result'.ret
                /\ At(versions', new[Len(new)].image_path) = frames[f]
                /\ \/ new[Len(new)].thumbnail_path = ""
                   \/ new[Len(new)].thumbnail_path \in thumbs']_vars

\* archive_frame has returned a version for which no thumbnail was made.
C26_Witness ==
    /\ result.op = "archive_frame"
    /\ result.ret # ""
    /\ result.ret \notin thumbs
    /\ LET vs == LoadIndexOf(indexFile).frame_versions[result.arg]
       IN  /\ vs # << >>
           /\ vs[Len(vs)].version_id = result.ret
           /\ vs[Len(vs)].thumbnail_path = ""

\* C27: on an index file that is present and cannot be parsed, every
\* operation goes on from an index with no checkpoints and no versions:
\* restore_checkpoint and delete_checkpoint report the checkpoint as not
\* found and change nothing, create_checkpoint appends its entry to an empty
\* list, archive_frame gives the frame its first iteration.
C27_CorruptIndexIsEmpty ==
    [][indexFile.st = "partial"
         => /\ (Returned("restore_checkpoint") \/ Returned("delete_checkpoint"))
                 => /\ ~result'.success
                    /\ result'.error = "Checkpoint not found"
                    /\ UNCHANGED fs
            /\ \A p \in Procs :
                  /\ (procs[p].pc = "cc_load" /\ procs'[p].pc = "save_open")
                        => procs'[p].index =
                              [EmptyIndex EXCEPT !.checkpoints = << procs[p].cp >>]
                  /\ (procs[p].pc = "idle" /\ procs'[p].pc = "af_copy")
                        => /\ procs'[p].index = EmptyIndex
                           /\ procs'[p].iteration = 1]_vars

\* create_checkpoint is about to save an index of its entry alone, although
\* an earlier checkpoint has its folder on disk: the index file it loaded
\* was cut short by a process that stopped while writing it.
C27_Witness ==
    \E p \in Procs :
        /\ procs[p].pc = "save_open"
        /\ procs[p].op = "create_checkpoint"
        /\ procs[p].prev.st = "partial"
        /\ Len(procs[p].index.checkpoints) = 1
        /\ Cardinality(DOMAIN dirs) >= 2
        /\ result.op = "crash"

\* C28: on an index whose entries have ids of their own, a successful
\* delete_checkpoint(id) removes the entry of that id and the folder made
\* for it and leaves every other folder, the archived images and the
\* thumbnails as they were; a successful restore_checkpoint(id) without a
\* checkpoint of the current state copies from the folder made for that id.
C28_ExactFolder ==
    [][\A id \in AllIds :
          LET index == LoadIndexOf(indexFile)
              cps == index.checkpoints
          IN  (/\ result'.arg = id
               /\ result'.success
               /\ \A i, j \in DOMAIN cps :
                     cps[i].checkpoint_id = cps[j].checkpoint_id => i = j)
                => /\ Returned("delete_checkpoint")
                        => LET cp == cps[Min(Entries(index, id))]
                           IN  /\ OwnFolder(cp) \notin DOMAIN dirs'
                               /\ \A d \in DOMAIN dirs \ {OwnFolder(cp)} :
                                     d \in DOMAIN dirs' /\ dirs'[d] = dirs[d]
                               /\ LoadIndexOf(indexFile').checkpoints
                                     = Pop(cps, Min(Entries(index, id)))
                               /\ LoadIndexOf(indexFile').frame_versions
                                     = index.frame_versions
                               /\ UNCHANGED <<versions, thumbs>>
                   /\ (Returned("restore_checkpoint") /\ result'.ret = "")
                        => LET cp == cps[Min(Entries(index, id))]
                           IN  /\ OwnFolder(cp) \in DOMAIN dirs
                               /\ live' = RestoredFiles(dirs[OwnFolder(cp)], live)]_vars

\* C29: a backup made by restore_checkpoint stays in the backup folder with
\* its content through every later step: a restore moves each live frame
\* image to a backup path that no earlier backup has.
C29_BackupsAccumulate ==
    [][\A b \in DOMAIN backups :
          /\ b \in DOMAIN backups'
          /\ backups'[b] = backups[b]]_vars

\* C30: a successful restore_checkpoint leaves alone every live artifact
\* file of which the folder made for the checkpoint holds no copy, and,
\* when that folder has no frames folder, every live frame image and the
\* backup folder.
C30_RestoreTouchesOnlyArchived ==
    [][(Returned("restore_checkpoint") /\ result'.success)
         => LET index == LoadIndexOf(indexFile)
                cp == index.checkpoints[Min(Entries(index, result'.arg))]
            IN  /\ OwnFolder(cp) \in DOMAIN dirs
                /\ LET A == dirs[OwnFolder(cp)]
                   IN  /\ \A p \in Paths :
                             A.files[Basename(p)] = Absent => live'[p] = live[p]
                       /\ ~A.hasFrames => UNCHANGED <<frames, backups>>]_vars

====
